---- MODULE Spec2Model ----
(***************************************************************************)
(* Model of the easy_venv scaffolding planner and executor:                *)
(*   FileSpec.parse            (models/config.py)                          *)
(*   ScaffoldContext.build     (models/scaffold_context.py)                *)
(*   ScaffoldManager           (scaffold_manger.py)                        *)
(*                                                                         *)
(* Encoding.  A Python string that is a request token is the sequence of   *)
(* its lexemes: maximal colon-free runs of characters and single colons,   *)
(* e.g. "l:apache:Jane" is <<"l", ":", "apache", ":", "Jane">>.  The file  *)
(* system of the target directory is a function from path to content; a    *)
(* content is a sequence of strings (the template rendered and the values  *)
(* substituted into it), NoFile standing for a missing path.  A FileSpec's *)
(* options dict is a record over the three option keys the program uses,   *)
(* "" standing for a key that is not in the dict (parse never stores an    *)
(* empty value).  A dict FileType -> FileSpec is the sequence of its       *)
(* values in insertion order.                                              *)
(***************************************************************************)
EXTENDS Naturals, Sequences, FiniteSets, TLC

\* ------------------------------------------------------------------ bounds

\* longest token list of an executed run
MaxTokens == 2
\* most files in the target directory before the first executed run
MaxExisting == 1
\* most failing writes explored
MaxFailures == 1
\* runs of build + execute_plan in a row on the same directory
MaxRuns == 2
\* longest token list a plan is built from, when only the plan is looked at
MaxPlanTokens == 2
\* most well-known files in the directory a plan is built for
MaxPlanExisting == 3
\* longest token list of the end-to-end scenarios
MaxScenarioTokens == 3
\* most lexemes (words and colons) of a token handed to FileSpec.parse alone
MaxParseLen == 5
\* most characters of a target directory's name
MaxNameLen == 3
\* calls of validate_target_directory on one DirectoryValidator
MaxCalls == 3
\* longest file_types list handed to FileManager.create_project_files
MaxFileTypes == 1

\* the elements of a sequence
Range(seq) == {seq[i] : i \in 1..Len(seq)}

\* ------------------------------------------------------------------ enums

LICENSE == "license"
REQUIREMENTS == "requirements"
PYPROJECT == "pyproject"
GITIGNORE == "gitignore"
README == "readme"
CHANGELOG == "changelog"

\* FileType, in the enum's definition order
FileType == <<LICENSE, REQUIREMENTS, PYPROJECT, GITIGNORE, README, CHANGELOG>>

MAIN == "main"
FULL == "full"
ALL == "all"
None == "None"

StructureTemplate == {MAIN, FULL, ALL}

\* FileSpec._CONFIGS[file_type]["aliases"]
Aliases(file_type) ==
    CASE file_type = LICENSE -> {"l", "lic"}
      [] file_type = REQUIREMENTS -> {"r", "req"}
      [] file_type = PYPROJECT -> {"p", "toml"}
      [] file_type = GITIGNORE -> {"g", "git"}
      [] file_type = README -> {"md", "read"}
      [] file_type = CHANGELOG -> {"ch", "log"}

\* FileSpec._CONFIGS[file_type]["option_keys"]
OptionKeys(file_type) ==
    CASE file_type = LICENSE -> <<"type", "author", "filename">>
      [] file_type = REQUIREMENTS -> <<"filename">>
      [] OTHER -> <<>>

\* FileSpec._STRUCTURE_ALIASES
StructureAliases(alias) ==
    CASE alias \in {"m", "main"} -> MAIN
      [] alias \in {"f", "full"} -> FULL
      [] alias \in {"*", "all"} -> ALL
      [] OTHER -> None

\* ------------------------------------------------------------------ FileSpec

NoOptions == [type |-> "", author |-> "", filename |-> ""]

\* FileSpec(file_type, options)
MkFileSpec(file_type, options) == [file_type |-> file_type, options |-> options]

\* the FileSpec half of a parse result that holds no FileSpec (Python's None)
NoSpec == MkFileSpec(None, NoOptions)

\* FileSpec.get(key, default)
Get(spec, key, default) ==
    IF spec.options[key] = "" THEN default ELSE spec.options[key]

\* the string a lexeme sequence without colon stands for
Text(lexemes) == IF lexemes = <<>> THEN "" ELSE lexemes[1]

\* index of the first colon of a token, 0 when it has none
FirstColon(tok) ==
    IF \E i \in 1..Len(tok) : tok[i] = ":"
    THEN CHOOSE i \in 1..Len(tok) :
            tok[i] = ":" /\ \A j \in 1..(i - 1) : tok[j] # ":"
    ELSE 0

\* str.split(':'): the segments between the colons, as strings
RECURSIVE SplitColons(_)
SplitColons(lexemes) ==
    LET c == FirstColon(lexemes) IN
    IF c = 0 THEN <<Text(lexemes)>>
    ELSE <<Text(SubSeq(lexemes, 1, c - 1))>>
            \o SplitColons(SubSeq(lexemes, c + 1, Len(lexemes)))

\* a zip that drops the empty segments before it pairs keys and values
ZipOptionsDroppingEmpty(keys, values) ==
    LET NonEmpty(v) == v # ""
        kept == SelectSeq(values, NonEmpty)
    IN  [k \in {"type", "author", "filename"} |->
            IF \E i \in 1..Len(keys) : keys[i] = k /\ i <= Len(kept)
            THEN LET i == CHOOSE i \in 1..Len(keys) : keys[i] = k IN kept[i]
            ELSE ""]

\* {key: value for key, value in zip(option_keys, option_values) if value}
ZipOptions(keys, values) ==
    [k \in {"type", "author", "filename"} |->
        IF \E i \in 1..Len(keys) : keys[i] = k /\ i <= Len(values)
        THEN LET i == CHOOSE i \in 1..Len(keys) : keys[i] = k IN values[i]
        ELSE ""]

\* FileSpec.parse: <<file_spec, structure>>, None for a missing half
parse(arg_str) ==
    LET c == FirstColon(arg_str)
        alias == IF c = 0 THEN Text(arg_str) ELSE Text(SubSeq(arg_str, 1, c - 1))
        has_option_string == c # 0 /\ c < Len(arg_str)
        option_string == SubSeq(arg_str, c + 1, Len(arg_str))
        matches == {i \in 1..Len(FileType) : alias \in Aliases(FileType[i])}
    IN  IF StructureAliases(alias) # None
        THEN [file_spec |-> NoSpec, structure |-> StructureAliases(alias)]
        ELSE IF matches # {}
        THEN LET file_type == FileType[CHOOSE i \in matches : \A j \in matches : i <= j]
                 options == IF has_option_string /\ OptionKeys(file_type) # <<>>
                            THEN ZipOptions(OptionKeys(file_type), SplitColons(option_string))
                            ELSE NoOptions
             IN [file_spec |-> MkFileSpec(file_type, options), structure |-> None]
        ELSE [file_spec |-> NoSpec, structure |-> None]

\* ------------------------------------------------------------------ dict FileType -> FileSpec

\* file_type in files
Has(files, file_type) == \E i \in 1..Len(files) : files[i].file_type = file_type

\* files.get(file_type); only used where Has(files, file_type)
Lookup(files, file_type) ==
    files[CHOOSE i \in 1..Len(files) : files[i].file_type = file_type]

\* a dict assignment that keeps the value a key already has
StoreKeepingFirst(files, spec) ==
    IF Has(files, spec.file_type) THEN files ELSE Append(files, spec)

\* files[spec.file_type] = spec: a key already present keeps its position
Store(files, spec) ==
    IF Has(files, spec.file_type)
    THEN [i \in 1..Len(files) |->
            IF files[i].file_type = spec.file_type THEN spec ELSE files[i]]
    ELSE Append(files, spec)

\* del files[file_type]
Delete(files, file_type) ==
    LET Keep(e) == e.file_type # file_type IN SelectSeq(files, Keep)

\* the keys of the dict
Keys(files) == {files[i].file_type : i \in 1..Len(files)}

\* ------------------------------------------------------------------ the target directory

\* the name of the target directory of the executed runs, and the package
\* identifier build derives from it
project_name == "my-proj"
project_package == "my_proj"

\* project_name, character by character
ProjectNameChars == <<"m", "y", "-", "p", "r", "o", "j">>

MainInit == "src/my_proj/__init__.py"
MainFile == "src/my_proj/main.py"
TestsInit == "tests/__init__.py"
TestMain == "tests/test_main.py"

\* the filenames DirectorySnapshot.scan looks for
WellKnownFiles ==
    {"LICENSE", "requirements.txt", "pyproject.toml", ".gitignore", "README.md",
     "CHANGELOG.md"}

\* a name a filename option gives to the license file
CustomLicenseFile == "LICENSE.txt"

\* every path a run can read or write
Paths == WellKnownFiles \cup {MainInit, MainFile, TestsInit, TestMain, CustomLicenseFile}

\* the paths that may exist before the first executed run
InitialPaths == WellKnownFiles \cup {MainFile, TestMain}

NoFile == <<>>
\* content of a file that was in the directory before the first run
Orig == <<"orig">>
\* content of a file made by Path.touch()
Touched == <<"">>

Exists(f, path) == f[path] # NoFile

\* DirectorySnapshot.scan(target_dir)
scan(f) ==
    [files |-> {n \in WellKnownFiles : Exists(f, n)},
     has_src_layout |-> Exists(f, MainInit) \/ Exists(f, MainFile),
     has_tests |-> Exists(f, TestsInit) \/ Exists(f, TestMain)]

\* DirectorySnapshot.file_exists(filename)
file_exists(snap, filename) == filename \in snap.files

\* ------------------------------------------------------------------ ScaffoldContext.build

\* ScaffoldContext._add_all_file_types, from position i of FileType on
RECURSIVE AddFrom(_, _)
AddFrom(files_dict, i) ==
    IF i > Len(FileType) THEN files_dict
    ELSE AddFrom(IF ~Has(files_dict, FileType[i])
                 THEN Store(files_dict, MkFileSpec(FileType[i], NoOptions))
                 ELSE files_dict, i + 1)

\* _add_all_file_types without its "if file_type not in files_dict"
RECURSIVE OverwriteFrom(_, _)
OverwriteFrom(files_dict, i) ==
    IF i > Len(FileType) THEN files_dict
    ELSE OverwriteFrom(Store(files_dict, MkFileSpec(FileType[i], NoOptions)), i + 1)

add_all_file_types_overwriting(files_dict) == OverwriteFrom(files_dict, 1)

add_all_file_types(files_dict) == AddFrom(files_dict, 1)

\* one iteration of the loop over create_args
ProcessArg(st, arg) ==
    LET p == parse(arg) IN
    IF p.structure = ALL
    THEN [st EXCEPT !.structures = @ \cup {FULL},
                    !.files = add_all_file_types(@)]
    ELSE IF p.structure # None
    THEN [st EXCEPT !.structures = @ \cup {p.structure}]
    ELSE IF p.file_spec # NoSpec
    THEN [st EXCEPT !.files = Store(@, p.file_spec)]
    ELSE [st EXCEPT !.unknown = Append(@, arg)]

\* the loop over create_args giving up at the first token parse does not recognize
RECURSIVE ProcessArgsStoppingAtUnknown(_, _, _)
ProcessArgsStoppingAtUnknown(st, create_args, i) ==
    IF i > Len(create_args) THEN st
    ELSE IF parse(create_args[i]) = [file_spec |-> NoSpec, structure |-> None]
    THEN [st EXCEPT !.unknown = Append(@, create_args[i])]
    ELSE ProcessArgsStoppingAtUnknown(ProcessArg(st, create_args[i]), create_args, i + 1)

\* the loop over create_args, from position i on
RECURSIVE ProcessArgs(_, _, _)
ProcessArgs(st, create_args, i) ==
    IF i > Len(create_args) THEN st
    ELSE ProcessArgs(ProcessArg(st, create_args[i]), create_args, i + 1)

\* requested_files, requested_structures and the tokens reported unknown
Requested(create_args) ==
    ProcessArgs([files |-> <<>>, structures |-> {}, unknown |-> <<>>], create_args, 1)

\* _apply_prioritization looking only at the pyproject.toml on disk
apply_prioritization_file_only(files, snap) ==
    IF file_exists(snap, "pyproject.toml") /\ Has(files, REQUIREMENTS)
    THEN Delete(files, REQUIREMENTS)
    ELSE files

\* _apply_prioritization looking only at the pyproject request
apply_prioritization_request_only(files, snap) ==
    IF Has(files, PYPROJECT) /\ Has(files, REQUIREMENTS)
    THEN Delete(files, REQUIREMENTS)
    ELSE files

\* _apply_prioritization that never drops the requirements request
apply_prioritization_keep_all(files, snap) == files

\* ScaffoldContext._apply_prioritization
apply_prioritization(files, snap) ==
    LET has_pyproject_spec == Has(files, PYPROJECT)
        has_pyproject_file == file_exists(snap, "pyproject.toml")
    IN  IF (has_pyproject_spec \/ has_pyproject_file) /\ Has(files, REQUIREMENTS)
        THEN Delete(files, REQUIREMENTS)
        ELSE files

\* _file_would_conflict looking only at each kind's default name
file_would_conflict_default_name(file_type, spec, snap) ==
    LET filename ==
          CASE file_type = LICENSE -> "LICENSE"
            [] file_type = REQUIREMENTS -> "requirements.txt"
            [] file_type = GITIGNORE -> ".gitignore"
            [] file_type = README -> "README.md"
            [] file_type = CHANGELOG -> "CHANGELOG.md"
            [] file_type = PYPROJECT -> "pyproject.toml"
    IN  file_exists(snap, filename)

\* ScaffoldContext._file_would_conflict
file_would_conflict(file_type, spec, snap) ==
    LET filename ==
          CASE file_type = LICENSE -> Get(spec, "filename", "LICENSE")
            [] file_type = REQUIREMENTS -> Get(spec, "filename", "requirements.txt")
            [] file_type = GITIGNORE -> Get(spec, "filename", ".gitignore")
            [] file_type = README -> Get(spec, "filename", "README.md")
            [] file_type = CHANGELOG -> Get(spec, "filename", "CHANGELOG.md")
            [] file_type = PYPROJECT -> "pyproject.toml"
    IN  file_exists(snap, filename)

\* safe_files: final_files without the entries whose file already exists
safe_files(final_files, snap) ==
    LET Safe(e) == ~file_would_conflict(e.file_type, e, snap)
    IN  SelectSeq(final_files, Safe)

\* str.lower() on one character of the names explored
Lower(c) ==
    CASE c = "A" -> "a"
      [] c = "B" -> "b"
      [] OTHER -> c

\* package = name.replace("-", "_").replace(" ", "_").lower(); a name is the
\* sequence of its characters
package_of(name) ==
    [i \in 1..Len(name) |-> IF name[i] \in {"-", " "} THEN "_" ELSE Lower(name[i])]

\* ScaffoldContext.build: the context it returns
build(f, name, create_args) ==
    LET snap == scan(f)
        req == Requested(create_args)
    IN  [project_name |-> name,
         project_package |-> package_of(name),
         files_to_create |-> safe_files(apply_prioritization(req.files, snap), snap),
         structures_to_create |-> req.structures,
         directory_snapshot |-> snap]

\* ScaffoldContext accessors
has_file_to_create(ctx, file_type) == Has(ctx.files_to_create, file_type)
should_create_src(ctx) ==
    MAIN \in ctx.structures_to_create \/ FULL \in ctx.structures_to_create
should_create_tests(ctx) == FULL \in ctx.structures_to_create
license_type(ctx) ==
    IF has_file_to_create(ctx, LICENSE)
    THEN Get(Lookup(ctx.files_to_create, LICENSE), "type", "mit")
    ELSE None

\* ------------------------------------------------------------------ LicenseHelper

\* LicenseHelper.get_license_info(license_type): an unknown alias falls back to MIT
get_license_info(type) ==
    CASE type = "apache" -> [template |-> "apache.tmpl", classifier |-> "Apache Software License"]
      [] OTHER -> [template |-> "mit.tmpl", classifier |-> "MIT License"]

\* LicenseHelper.detect_license(target_dir): the classifier of the LICENSE file found
detect_license(f) ==
    IF Exists(f, "LICENSE") /\ f["LICENSE"][1] = "apache.tmpl"
    THEN "Apache Software License"
    ELSE "MIT License"

\* ------------------------------------------------------------------ ScaffoldManager

\* ScaffoldManager._write_file: the directory after the call; ok is whether open
\* and write succeeded (the function's return value)
write_file(f, file_path, content, ok) ==
    IF ok THEN [f EXCEPT ![file_path] = content] ELSE f

\* Path.touch(): creates the file empty, leaves an existing file's content alone
touch(f, file_path) ==
    IF Exists(f, file_path) THEN f ELSE [f EXCEPT ![file_path] = Touched]

\* the filename a _create_* method resolves for a request
Filename(file_type, spec) ==
    CASE file_type = REQUIREMENTS -> Get(spec, "filename", "requirements.txt")
      [] file_type = GITIGNORE -> Get(spec, "filename", ".gitignore")
      [] file_type = README -> Get(spec, "filename", "README.md")
      [] file_type = LICENSE -> Get(spec, "filename", "LICENSE")
      [] file_type = CHANGELOG -> Get(spec, "filename", "CHANGELOG.md")
      [] file_type = PYPROJECT -> "pyproject.toml"

\* the features list of _create_changelog
changelog_features(ctx) ==
    (IF has_file_to_create(ctx, README) THEN <<"Added README.md documentation">> ELSE <<>>)
    \o (IF has_file_to_create(ctx, LICENSE) THEN <<"Added LICENSE file">> ELSE <<>>)
    \o (IF should_create_src(ctx)
        THEN <<"Added src/ package structure", "Added main.py entry point">> ELSE <<>>)
    \o (IF should_create_tests(ctx)
        THEN <<"Added tests/ directory with basic test structure">> ELSE <<>>)
    \o (IF has_file_to_create(ctx, PYPROJECT)
        THEN <<"Added pyproject.toml configuration">> ELSE <<>>)
    \o (IF has_file_to_create(ctx, GITIGNORE) THEN <<"Added .gitignore file">> ELSE <<>>)

\* has_readme that forgets the snapshot
has_readme_plan_only(ctx) == has_file_to_create(ctx, README)

\* has_readme, has_license, has_tests, has_src of _build_pyproject_sections
has_readme(ctx) ==
    file_exists(ctx.directory_snapshot, "README.md") \/ has_file_to_create(ctx, README)
has_license(ctx) ==
    file_exists(ctx.directory_snapshot, "LICENSE") \/ has_file_to_create(ctx, LICENSE)
has_tests(ctx) == ctx.directory_snapshot.has_tests \/ should_create_tests(ctx)
has_src(ctx) == ctx.directory_snapshot.has_src_layout \/ should_create_src(ctx)

\* ScaffoldManager._build_pyproject_sections, in the order
\* license_classifier, readme_section, license_section, pytest_section, build_section
build_pyproject_sections(ctx, f) ==
    <<IF license_type(ctx) # None
      THEN get_license_info(license_type(ctx)).classifier
      ELSE detect_license(f),
      IF has_readme(ctx) THEN "readme = \"README.md\"" ELSE "# readme",
      IF has_license(ctx) THEN "license = {file = \"LICENSE\"}" ELSE "# license",
      IF has_tests(ctx) THEN "[tool.pytest.ini_options]" ELSE "# [tool.pytest.ini_options]",
      IF has_src(ctx) THEN "[tool.hatch.build.targets.wheel]"
      ELSE "# [tool.hatch.build.targets.wheel]">>

\* _create_license that substitutes the placeholder author for every request
RenderPlaceholderAuthor(file_type, spec, ctx, f) ==
    CASE file_type = REQUIREMENTS -> <<"requirements.txt.tmpl">>
      [] file_type = GITIGNORE -> <<"gitignore.tmpl">>
      [] file_type = README -> <<"README.md.tmpl", project_name>>
      [] file_type = LICENSE ->
            <<get_license_info(Get(spec, "type", "mit")).template,
              "TODO: Add your name", project_name>>
      [] file_type = CHANGELOG ->
            <<"CHANGELOG.md.tmpl", project_name>> \o changelog_features(ctx)
      [] file_type = PYPROJECT ->
            <<"pyproject.toml.tmpl", project_name>> \o build_pyproject_sections(ctx, f)

\* the text a _create_* method renders: the template and the values substituted
Render(file_type, spec, ctx, f) ==
    CASE file_type = REQUIREMENTS -> <<"requirements.txt.tmpl">>
      [] file_type = GITIGNORE -> <<"gitignore.tmpl">>
      [] file_type = README -> <<"README.md.tmpl", project_name>>
      [] file_type = LICENSE ->
            <<get_license_info(Get(spec, "type", "mit")).template,
              Get(spec, "author", "TODO: Add your name"), project_name>>
      [] file_type = CHANGELOG ->
            <<"CHANGELOG.md.tmpl", project_name>> \o changelog_features(ctx)
      [] file_type = PYPROJECT ->
            <<"pyproject.toml.tmpl", project_name>> \o build_pyproject_sections(ctx, f)

\* ScaffoldManager._create_main_structure
create_main_structure(f, ok) ==
    IF Exists(f, MainFile)
    THEN [fs |-> f, created |-> FALSE, log |-> <<>>, failed |-> 0]
    ELSE [fs |-> write_file(touch(f, MainInit), MainFile,
                            <<"main.py.tmpl", project_name>>, ok),
          created |-> TRUE,
          log |-> (IF Exists(f, MainInit) THEN <<>> ELSE <<MainInit>>)
                  \o (IF ok THEN <<MainFile>> ELSE <<>>),
          failed |-> IF ok THEN 0 ELSE 1]

\* ScaffoldManager._create_full_structure
create_full_structure(f, ok_main, ok_tests) ==
    LET m == create_main_structure(f, ok_main)
        created_tests == ~Exists(m.fs, TestMain)
    IN  IF created_tests
        THEN [fs |-> write_file(touch(m.fs, TestsInit), TestMain,
                                <<"test_main.py.tmpl", project_package>>, ok_tests),
              created |-> TRUE,
              log |-> m.log \o (IF Exists(m.fs, TestsInit) THEN <<>> ELSE <<TestsInit>>)
                      \o (IF ok_tests THEN <<TestMain>> ELSE <<>>),
              failed |-> m.failed + (IF ok_tests THEN 0 ELSE 1)]
        ELSE m

\* ------------------------------------------------------------------ state

VARIABLES
    create_args,     \* the token list of the invocation (the -c values)
    fs,              \* the target directory: path -> content
    pc,              \* "start", "exec" (inside execute_plan), "report", "done";
                     \* "crashed": execute_plan ended with an exception;
                     \* "fm_ready": a FileManager was constructed;
                     \* "exit1": the process ended with sys.exit(1)
    run,             \* number of the current run on this directory
    requested,       \* requested_files, requested_structures, unknown tokens of build
    context,         \* the ScaffoldContext build returned
    struct_todo,     \* templates the first loop of execute_plan has not reached yet
    file_todo,       \* entries the second loop of execute_plan has not reached yet
    pyproject_spec,  \* execute_plan's local of that name
    created_files,   \* execute_plan's local of that name
    skipped_files,   \* execute_plan's local of that name
    failures,        \* writes that failed so far
    write_log,       \* paths created or written in the current run, in order
    fs_prev,         \* the directory as the previous run left it
    target_dir,      \* what the path target_dir is: "dir", "missing" or "file"
    dir_name,        \* target_dir.name, character by character
    validation_errors, \* DirectoryValidator.validation_errors
    returned,        \* what the last call of validate_target_directory returned
    target_state,    \* what the validator's checks of target_dir find
    calls,           \* calls of validate_target_directory so far
    file_types,      \* FileManager.create_project_files: the types still to process
    will_create      \* FileManager.create_project_files: its will_create dict

validator_vars == <<validation_errors, returned, target_state, calls>>

fm_vars == <<file_types, will_create>>

vars == <<create_args, fs, pc, run, requested, context, struct_todo, file_todo,
          pyproject_spec, created_files, skipped_files, failures, write_log, fs_prev,
          target_dir, dir_name, validator_vars, fm_vars>>

\* the tokens the planner's token lists are drawn from
TokenPool ==
    {<<"l">>, <<"l", ":", "apache", ":", "Jane">>, <<"l", ":", "mit", ":", "Alice">>,
     <<"r">>, <<"r", ":", "LICENSE">>, <<"p">>, <<"g">>, <<"md">>, <<"ch">>,
     <<"all">>, <<"*">>, <<"m">>, <<"f">>, <<"zz">>}

\* the tokens of the executed runs: one alias of each request that differs in effect
ExecPool ==
    {<<"l", ":", "apache", ":", "Jane">>, <<"l", ":", "mit", ":", "Alice">>,
     <<"r">>, <<"r", ":", "LICENSE">>, <<"p">>, <<"g">>, <<"md">>, <<"ch">>,
     <<"all">>, <<"m">>, <<"f">>}

\* the tokens of the end-to-end scenarios
ScenarioPool ==
    {<<"g">>, <<"md">>, <<"l", ":", "mit", ":", "Alice">>, <<"ch">>, <<"p">>, <<"m">>}

\* every list of at most n tokens of pool
TokenLists(pool, n) == UNION {[1..k -> pool] : k \in 0..n}

\* the directories in which at most n of the paths exist, each with content from
\* before the run
Directories(paths, n) ==
    {[p \in Paths |-> IF p \in S THEN Orig ELSE NoFile] :
        S \in {T \in SUBSET paths : Cardinality(T) <= n}}

EmptyContext ==
    [project_name |-> <<>>, project_package |-> <<>>,
     files_to_create |-> <<>>, structures_to_create |-> {},
     directory_snapshot |-> [files |-> {}, has_src_layout |-> FALSE, has_tests |-> FALSE]]

EmptyRequested == [files |-> <<>>, structures |-> {}, unknown |-> <<>>]

\* what the checks find for a writable directory with room
UsableDirectory ==
    [access |-> "exists", is_dir |-> TRUE, r_ok |-> TRUE, w_ok |-> TRUE,
     x_ok |-> TRUE, space |-> "enough"]

\* no DirectoryValidator in use
ValidatorUnused ==
    /\ validation_errors = <<>>
    /\ returned = "not called"
    /\ target_state = UsableDirectory
    /\ calls = 0

NoWillCreate == [readme |-> FALSE, license |-> FALSE, structure |-> FALSE, tests |-> FALSE]

\* no call of FileManager.create_project_files in progress
FileManagerUnused ==
    /\ file_types = <<>>
    /\ will_create = NoWillCreate

\* before the command runs: the token list, the directory's files, what the
\* target path is and its name
InitOver(lists, directories, targets, names) ==
    /\ create_args \in lists
    /\ target_dir \in targets
    /\ fs \in IF target_dir = "dir" THEN directories ELSE {[p \in Paths |-> NoFile]}
    /\ dir_name \in names
    /\ pc = "start"
    /\ run = 1
    /\ requested = EmptyRequested
    /\ context = EmptyContext
    /\ struct_todo = {}
    /\ file_todo = <<>>
    /\ pyproject_spec = NoSpec
    /\ created_files = <<>>
    /\ skipped_files = <<>>
    /\ failures = 0
    /\ write_log = <<>>
    /\ fs_prev = fs
    /\ ValidatorUnused
    /\ FileManagerUnused

\* the same for an existing directory named project_name
InitWith(lists, directories) ==
    InitOver(lists, directories, {"dir"}, {ProjectNameChars})

\* ------------------------------------------------------------------ actions

\* a build that creates README.md before it scans the directory
BuildAfterWrite ==
    /\ pc = "start"
    /\ fs' = touch(fs, "README.md")
    /\ requested' = Requested(create_args)
    /\ context' = build(fs', dir_name, create_args)
    /\ struct_todo' = context'.structures_to_create
    /\ file_todo' = context'.files_to_create
    /\ pyproject_spec' = NoSpec
    /\ created_files' = <<>>
    /\ skipped_files' = <<>>
    /\ write_log' = IF Exists(fs, "README.md") THEN <<>> ELSE <<"README.md">>
    /\ pc' = "exec"
    /\ UNCHANGED <<create_args, run, failures, fs_prev, target_dir, dir_name, validator_vars, fm_vars>>

\* ScaffoldContext.build(target_dir, create_args), then the entry of execute_plan
Build ==
    /\ pc = "start"
    /\ requested' = Requested(create_args)
    /\ context' = build(fs, dir_name, create_args)
    /\ struct_todo' = context'.structures_to_create
    /\ file_todo' = context'.files_to_create
    /\ pyproject_spec' = NoSpec
    /\ created_files' = <<>>
    /\ skipped_files' = <<>>
    /\ write_log' = <<>>
    /\ pc' = "exec"
    /\ UNCHANGED <<create_args, fs, run, failures, fs_prev, target_dir, dir_name, validator_vars, fm_vars>>

\* one iteration of "for template in context.structures_to_create"
CreateStructure ==
    /\ pc = "exec"
    /\ target_dir # "file"
    /\ \E template \in struct_todo, ok_main \in BOOLEAN, ok_tests \in BOOLEAN :
        LET r == IF template = MAIN
                 THEN create_main_structure(fs, ok_main)
                 ELSE create_full_structure(fs, ok_main, ok_tests)
            name == IF template = MAIN THEN "src/main.py structure"
                    ELSE "full project structure"
        IN  /\ failures + r.failed <= MaxFailures
            /\ fs' = r.fs
            /\ failures' = failures + r.failed
            /\ write_log' = write_log \o r.log
            /\ created_files' = IF r.created THEN Append(created_files, name)
                                ELSE created_files
            /\ skipped_files' = IF r.created THEN skipped_files
                                ELSE Append(skipped_files, name)
            /\ struct_todo' = struct_todo \ {template}
            /\ target_dir' = IF r.log # <<>> THEN "dir" ELSE target_dir
    /\ UNCHANGED <<create_args, pc, run, requested, context, file_todo,
                   pyproject_spec, fs_prev, dir_name, validator_vars, fm_vars>>

\* the same iteration when package_dir.mkdir, tests_dir.mkdir or a touch() raises:
\* nothing in execute_plan catches it, the call ends with the exception
CreateStructureRaises ==
    /\ pc = "exec"
    /\ target_dir = "file" \/ failures < MaxFailures
    /\ \E template \in struct_todo :
        \/ /\ ~Exists(fs, MainFile)
           /\ UNCHANGED <<fs, write_log, target_dir>>
        \/ /\ template = FULL
           /\ target_dir # "file"
           /\ \E ok_main \in BOOLEAN :
                LET m == create_main_structure(fs, ok_main) IN
                /\ m.failed = 0
                /\ ~Exists(m.fs, TestMain)
                /\ fs' = m.fs
                /\ write_log' = write_log \o m.log
                /\ target_dir' = IF m.log # <<>> THEN "dir" ELSE target_dir
    /\ failures' = failures + 1
    /\ pc' = "crashed"
    /\ UNCHANGED <<create_args, run, requested, context, struct_todo, file_todo,
                   pyproject_spec, created_files, skipped_files, fs_prev, dir_name, validator_vars, fm_vars>>

\* a deferral that takes the pyproject request out of the plan's map
DeferPyprojectPopping ==
    /\ pc = "exec"
    /\ struct_todo = {}
    /\ file_todo # <<>>
    /\ Head(file_todo).file_type = PYPROJECT
    /\ pyproject_spec' = Head(file_todo)
    /\ file_todo' = Tail(file_todo)
    /\ context' = [context EXCEPT
                      !.files_to_create = Delete(context.files_to_create, PYPROJECT)]
    /\ UNCHANGED <<create_args, fs, pc, run, requested, struct_todo,
                   created_files, skipped_files, failures, write_log, fs_prev,
                   target_dir, dir_name, validator_vars, fm_vars>>

\* an iteration of "for file_type, spec in context.files_to_create.items()" that
\* meets the pyproject request and keeps it for later
DeferPyproject ==
    /\ pc = "exec"
    /\ struct_todo = {}
    /\ file_todo # <<>>
    /\ Head(file_todo).file_type = PYPROJECT
    /\ pyproject_spec' = Head(file_todo)
    /\ file_todo' = Tail(file_todo)
    /\ UNCHANGED <<create_args, fs, pc, run, requested, context, struct_todo,
                   created_files, skipped_files, failures, write_log, fs_prev,
                   target_dir, dir_name, validator_vars, fm_vars>>

\* an iteration of the same loop for any other request: _create_file
CreateFile ==
    /\ pc = "exec"
    /\ struct_todo = {}
    /\ file_todo # <<>>
    /\ Head(file_todo).file_type # PYPROJECT
    /\ \E ok \in BOOLEAN :
        LET spec == Head(file_todo)
            filename == Filename(spec.file_type, spec)
        IN  /\ ok => target_dir = "dir"
            /\ ok \/ target_dir # "dir" \/ failures < MaxFailures
            /\ fs' = write_file(fs, filename, Render(spec.file_type, spec, context, fs), ok)
            /\ failures' = IF ok THEN failures ELSE failures + 1
            /\ write_log' = IF ok THEN Append(write_log, filename) ELSE write_log
            /\ created_files' = IF ok THEN Append(created_files, filename)
                                ELSE created_files
            /\ skipped_files' = IF ok THEN skipped_files
                                ELSE Append(skipped_files, filename)
    /\ file_todo' = Tail(file_todo)
    /\ UNCHANGED <<create_args, pc, run, requested, context, struct_todo,
                   pyproject_spec, fs_prev, target_dir, dir_name, validator_vars, fm_vars>>

\* "if pyproject_spec:" _create_pyproject_toml, after both loops
CreatePyproject ==
    /\ pc = "exec"
    /\ struct_todo = {}
    /\ file_todo = <<>>
    /\ pyproject_spec # NoSpec
    /\ \E ok \in BOOLEAN :
        LET filename == "pyproject.toml" IN
        /\ ok => target_dir = "dir"
        /\ ok \/ target_dir # "dir" \/ failures < MaxFailures
        /\ fs' = write_file(fs, filename,
                            Render(PYPROJECT, pyproject_spec, context, fs), ok)
        /\ failures' = IF ok THEN failures ELSE failures + 1
        /\ write_log' = IF ok THEN Append(write_log, filename) ELSE write_log
        /\ created_files' = IF ok THEN Append(created_files, filename)
                            ELSE created_files
        /\ skipped_files' = IF ok THEN skipped_files
                            ELSE Append(skipped_files, filename)
    /\ pc' = "report"
    /\ UNCHANGED <<create_args, run, requested, context, struct_todo, file_todo,
                   pyproject_spec, fs_prev, target_dir, dir_name, validator_vars, fm_vars>>

\* _report_summary(created_files, skipped_files): the run is over
ReportSummary ==
    /\ \/ pc = "report"
       \/ pc = "exec" /\ struct_todo = {} /\ file_todo = <<>> /\ pyproject_spec = NoSpec
    /\ pc' = "done"
    /\ UNCHANGED <<create_args, fs, run, requested, context, struct_todo, file_todo,
                   pyproject_spec, created_files, skipped_files, failures, write_log,
                   fs_prev, target_dir, dir_name, validator_vars, fm_vars>>

\* the same command is run again on the same directory
RunAgain ==
    /\ pc = "done"
    /\ run < MaxRuns
    /\ run' = run + 1
    /\ fs_prev' = fs
    /\ pc' = "start"
    /\ UNCHANGED <<create_args, fs, requested, context, struct_todo, file_todo,
                   pyproject_spec, created_files, skipped_files, failures, write_log,
                   target_dir, dir_name, validator_vars, fm_vars>>

Next ==
    \/ Build
    \/ CreateStructure
    \/ CreateStructureRaises
    \/ DeferPyproject
    \/ CreateFile
    \/ CreatePyproject
    \/ ReportSummary

Init ==
    InitWith(TokenLists(ExecPool, MaxTokens), Directories(InitialPaths, MaxExisting))

\* one run of build + execute_plan
Spec == Init /\ [][Next]_vars

\* the same command run MaxRuns times in a row
NextRerun == Next \/ RunAgain

SpecRerun == Init /\ [][NextRerun]_vars

\* ScaffoldContext.build alone, over more token lists and snapshots
InitPlan ==
    InitWith(TokenLists(TokenPool, MaxPlanTokens),
             Directories(WellKnownFiles, MaxPlanExisting))

NextPlan == Build

SpecPlan == InitPlan /\ [][NextPlan]_vars

\* the end-to-end scenarios: longer token lists of fewer tokens
InitScenario ==
    InitWith(TokenLists(ScenarioPool, MaxScenarioTokens),
             Directories(InitialPaths, MaxExisting))

SpecScenario == InitScenario /\ [][Next]_vars

\* the tokens of the runs that write a license next to pyproject.toml
LicensePool ==
    {<<"l">>, <<"l", ":", ":", ":", CustomLicenseFile>>, <<"p">>, <<"md">>, <<"f">>}

\* runs in which the license request may carry a filename option
InitLicense ==
    InitWith(TokenLists(LicensePool, MaxTokens), Directories(InitialPaths, MaxExisting))

SpecLicense == InitLicense /\ [][Next]_vars

\* FileManager(target_dir): __init__ with its _validate_target_directory
ConstructFileManager ==
    /\ pc = "start"
    /\ pc' = IF target_dir = "dir" THEN "fm_ready" ELSE "exit1"
    /\ UNCHANGED <<create_args, fs, run, requested, context, struct_todo, file_todo,
                   pyproject_spec, created_files, skipped_files, failures, write_log,
                   fs_prev, target_dir, dir_name, validator_vars, fm_vars>>

\* the command, or the construction of a FileManager, on a path that is a
\* directory, does not exist, or is a regular file
InitTarget ==
    InitOver(TokenLists(ExecPool, MaxTokens), Directories(InitialPaths, MaxExisting),
             {"dir", "missing", "file"}, {ProjectNameChars})

NextTarget == Next \/ ConstructFileManager

SpecTarget == InitTarget /\ [][NextTarget]_vars

\* the words of the tokens handed to FileSpec.parse alone
ParseWords == {"l", "req", "g", "m", "all", "zz", "Jane"}

\* every token of at most n lexemes: words and colons, no two words in a row
ParseTokens(n) ==
    {t \in UNION {[1..k -> ParseWords \cup {":"}] : k \in 0..n} :
        \A i \in 1..(Len(t) - 1) : t[i] = ":" \/ t[i + 1] = ":"}

\* FileSpec.parse on one token, as build calls it
InitParse ==
    InitWith({<<t>> : t \in ParseTokens(MaxParseLen)}, {[p \in Paths |-> NoFile]})

SpecParse == InitParse /\ [][NextPlan]_vars

\* the characters of the directory names explored
NameChars == {"a", "B", "1", "-", " ", ".", "_"}

\* every name of 1 to n characters
Names(n) == UNION {[1..k -> NameChars] : k \in 1..n}

\* ScaffoldContext.build in directories of every name
InitPackage ==
    InitOver(TokenLists({<<"g">>}, 1), {[p \in Paths |-> NoFile]}, {"dir"},
             Names(MaxNameLen))

SpecPackage == InitPackage /\ [][NextPlan]_vars

\* ------------------------------------------------------------------ FileManager

\* the file types create_project_files knows, and one it does not
FileTypeNames ==
    {"requirements", "pyproject", "gitignore", "readme", "changelog", "license",
     "main", "structure", "all", "docs"}

\* [ft for ft in file_types if ft != 'requirements']
WithoutRequirements(types) ==
    LET Keep(ft) == ft # "requirements" IN SelectSeq(types, Keep)

\* create_project_files, up to its loop: the file_types it goes on with
effective_file_types(types, f) ==
    LET expanded == IF "all" \in Range(types)
                    THEN <<"pyproject", "gitignore", "readme", "changelog", "license",
                           "structure">>
                    ELSE types
    IN  IF "requirements" \in Range(expanded) /\ "pyproject" \in Range(expanded)
        THEN WithoutRequirements(expanded)
        ELSE IF "requirements" \in Range(expanded) /\ Exists(f, "pyproject.toml")
        THEN WithoutRequirements(expanded)
        ELSE expanded

\* create_project_files: its will_create dict
will_create_of(types) ==
    [readme |-> "readme" \in Range(types),
     license |-> "license" \in Range(types),
     structure |-> "structure" \in Range(types) \/ "main" \in Range(types),
     tests |-> "structure" \in Range(types)]

\* the file a file type of create_project_files is written to
TargetFile(file_type) ==
    CASE file_type = "requirements" -> "requirements.txt"
      [] file_type = "pyproject" -> "pyproject.toml"
      [] file_type = "gitignore" -> ".gitignore"
      [] file_type = "readme" -> "README.md"
      [] file_type = "changelog" -> "CHANGELOG.md"
      [] file_type = "license" -> "LICENSE"

\* FileManager._build_pyproject_sections: the lines that depend on the directory
\* and on will_create
fm_pyproject_sections(f, wc) ==
    <<IF Exists(f, "README.md") \/ wc.readme
      THEN "readme = \"README.md\"" ELSE "# readme = \"README.md\"",
      IF Exists(f, "LICENSE") \/ wc.license
      THEN "license = {file = \"LICENSE\"}" ELSE "# license = {file = \"LICENSE\"}",
      IF Exists(f, TestsInit) \/ Exists(f, TestMain) \/ wc.tests
      THEN "[tool.pytest.ini_options]" ELSE "# [tool.pytest.ini_options]",
      IF Exists(f, MainInit) \/ Exists(f, MainFile) \/ wc.structure
      THEN "[tool.hatch.build.targets.wheel]" ELSE "# [tool.hatch.build.targets.wheel]">>

\* FileManager.create_changelog: its features list
fm_changelog_features(f, wc) ==
    (IF wc.readme THEN <<"Added README.md documentation">> ELSE <<>>)
    \o (IF wc.license THEN <<"Added LICENSE file">> ELSE <<>>)
    \o (IF wc.structure
        THEN <<"Added src/ package structure", "Added main.py entry point">> ELSE <<>>)
    \o (IF wc.tests THEN <<"Added tests/ directory with basic test structure">> ELSE <<>>)
    \o (IF Exists(f, "pyproject.toml") THEN <<"Added pyproject.toml configuration">>
        ELSE <<>>)
    \o (IF Exists(f, ".gitignore") THEN <<"Added .gitignore file">> ELSE <<>>)

\* the content create_<file_type> writes
fm_content(file_type, f, wc) ==
    CASE file_type = "requirements" -> <<"# TODO: Add your project dependencies here">>
      [] file_type = "pyproject" ->
            <<"pyproject.toml.tmpl", project_name>> \o fm_pyproject_sections(f, wc)
      [] file_type = "gitignore" -> <<"gitignore.tmpl">>
      [] file_type = "readme" -> <<"README.md.tmpl", project_name>>
      [] file_type = "changelog" ->
            <<"CHANGELOG.md.tmpl", project_name>> \o fm_changelog_features(f, wc)
      [] file_type = "license" -> <<"LICENSE_MIT.tmpl">>

\* FileManager._write_file; bad holds the paths whose open or write fails
fm_write_file(f, file_path, content, bad) ==
    IF file_path \in bad THEN f ELSE [f EXCEPT ![file_path] = content]

\* a create_<file_type> that writes without looking whether the file exists
fm_create_file_overwriting(file_type, f, wc, bad) ==
    LET file == TargetFile(file_type) IN
    [fs |-> fm_write_file(f, file, fm_content(file_type, f, wc), bad),
     result |-> file \notin bad,
     attempted |-> {file}]

\* create_requirements_file, create_pyproject_toml, create_gitignore,
\* create_readme, create_license, create_changelog: the directory afterwards,
\* the return value and the paths _write_file was called for
fm_create_file(file_type, f, wc, bad) ==
    LET file == TargetFile(file_type) IN
    IF Exists(f, file)
    THEN [fs |-> f, result |-> FALSE, attempted |-> {}]
    ELSE [fs |-> fm_write_file(f, file, fm_content(file_type, f, wc), bad),
          result |-> file \notin bad,
          attempted |-> {file}]

\* FileManager.create_main_structure
fm_create_main_structure(f, bad) ==
    IF Exists(f, MainFile)
    THEN [fs |-> f, result |-> FALSE, attempted |-> {}]
    ELSE LET with_init == IF Exists(f, MainInit) THEN f
                          ELSE fm_write_file(f, MainInit, <<"__init__.py.tmpl">>, bad)
         IN  [fs |-> fm_write_file(with_init, MainFile,
                                   <<"main.py.tmpl", project_package>>, bad),
              result |-> MainFile \notin bad,
              attempted |-> {MainFile}
                            \cup (IF Exists(f, MainInit) THEN {} ELSE {MainInit})]

\* FileManager.create_project_structure: its src part
fm_src_part(f, bad) ==
    IF Exists(f, MainFile)
    THEN [fs |-> f, result |-> FALSE, attempted |-> {}]
    ELSE fm_create_main_structure(f, bad)

\* FileManager.create_project_structure
fm_create_project_structure(f, bad) ==
    LET m == fm_src_part(f, bad)
        new_init == ~Exists(m.fs, TestsInit)
        with_init == IF new_init
                     THEN fm_write_file(m.fs, TestsInit,
                                        <<"Tests for the project.">>, bad)
                     ELSE m.fs
        new_test == ~Exists(with_init, TestMain)
    IN  [fs |-> IF new_test
                THEN fm_write_file(with_init, TestMain,
                                   <<"test_main.py.tmpl", project_package>>, bad)
                ELSE with_init,
         result |-> m.result \/ new_init \/ new_test,
         attempted |-> m.attempted
                       \cup (IF new_init THEN {TestsInit} ELSE {})
                       \cup (IF new_test THEN {TestMain} ELSE {})]

\* the name under which create_project_files lists a file type
ListedName(file_type) ==
    CASE file_type = "main" -> "src/main.py structure"
      [] file_type = "structure" -> "full project structure"
      [] OTHER -> TargetFile(file_type)

\* the branch of the loop body of create_project_files for file_type; a type
\* it does not know does nothing
fm_process(file_type, f, wc, bad) ==
    CASE file_type = "main" -> fm_create_main_structure(f, bad)
      [] file_type = "structure" -> fm_create_project_structure(f, bad)
      [] file_type = "docs" -> [fs |-> f, result |-> FALSE, attempted |-> {}]
      [] OTHER -> fm_create_file(file_type, f, wc, bad)

\* create_project_files, from its entry to its loop
CreateProjectFilesStart ==
    /\ pc = "fm_ready"
    /\ file_types' = effective_file_types(create_args, fs)
    /\ will_create' = will_create_of(file_types')
    /\ created_files' = <<>>
    /\ skipped_files' = <<>>
    /\ pc' = "fm_exec"
    /\ UNCHANGED <<create_args, fs, run, requested, context, struct_todo, file_todo,
                   pyproject_spec, failures, write_log, fs_prev, target_dir, dir_name,
                   validator_vars>>

\* one iteration of "for file_type in file_types"
ProcessFileType ==
    /\ pc = "fm_exec"
    /\ file_types # <<>>
    /\ \E bad \in SUBSET fm_process(Head(file_types), fs, will_create, {}).attempted :
        LET file_type == Head(file_types)
            r == fm_process(file_type, fs, will_create, bad)
        IN  /\ failures + Cardinality(bad) <= MaxFailures
            /\ failures' = failures + Cardinality(bad)
            /\ fs' = r.fs
            /\ write_log' = write_log \o SelectSeq(<<MainInit, MainFile, TestsInit, TestMain,
                                                     "requirements.txt", "pyproject.toml",
                                                     ".gitignore", "README.md",
                                                     "CHANGELOG.md", "LICENSE">>,
                                                   LAMBDA q : q \in r.attempted \ bad)
            /\ created_files' = IF file_type # "docs" /\ r.result
                                THEN Append(created_files, ListedName(file_type))
                                ELSE created_files
            /\ skipped_files' = IF file_type # "docs" /\ ~r.result
                                THEN Append(skipped_files, ListedName(file_type))
                                ELSE skipped_files
    /\ file_types' = Tail(file_types)
    /\ UNCHANGED <<create_args, pc, run, requested, context, struct_todo, file_todo,
                   pyproject_spec, fs_prev, target_dir, dir_name, validator_vars,
                   will_create>>

\* the same iteration when package_dir.mkdir or tests_dir.mkdir raises: nothing
\* in create_project_files catches it
ProcessFileTypeRaises ==
    /\ pc = "fm_exec"
    /\ file_types # <<>>
    /\ failures < MaxFailures
    /\ \/ /\ Head(file_types) \in {"main", "structure"}
          /\ ~Exists(fs, MainFile)
          /\ UNCHANGED <<fs, write_log>>
       \/ /\ Head(file_types) = "structure"
          /\ LET m == fm_src_part(fs, {}) IN
             /\ fs' = m.fs
             /\ write_log' = write_log \o SelectSeq(<<MainInit, MainFile>>,
                                                   LAMBDA q : q \in m.attempted)
    /\ failures' = failures + 1
    /\ pc' = "fm_crashed"
    /\ UNCHANGED <<create_args, run, requested, context, struct_todo, file_todo,
                   pyproject_spec, created_files, skipped_files, fs_prev, target_dir,
                   dir_name, validator_vars, fm_vars>>

\* the summary output of create_project_files
CreateProjectFilesSummary ==
    /\ pc = "fm_exec"
    /\ file_types = <<>>
    /\ pc' = "fm_done"
    /\ UNCHANGED <<create_args, fs, run, requested, context, struct_todo, file_todo,
                   pyproject_spec, created_files, skipped_files, failures, write_log,
                   fs_prev, target_dir, dir_name, validator_vars, fm_vars>>

\* FileManager(target_dir).create_project_files(file_types); create_args holds
\* the file_types argument
InitFileManager ==
    /\ create_args \in UNION {[1..k -> FileTypeNames] : k \in 0..MaxFileTypes}
    /\ target_dir = "dir"
    /\ fs \in Directories(InitialPaths \cup {MainInit, TestsInit}, MaxExisting)
    /\ dir_name = ProjectNameChars
    /\ pc = "start"
    /\ run = 1
    /\ requested = EmptyRequested
    /\ context = EmptyContext
    /\ struct_todo = {}
    /\ file_todo = <<>>
    /\ pyproject_spec = NoSpec
    /\ created_files = <<>>
    /\ skipped_files = <<>>
    /\ failures = 0
    /\ write_log = <<>>
    /\ fs_prev = fs
    /\ ValidatorUnused
    /\ FileManagerUnused

NextFileManager ==
    \/ ConstructFileManager
    \/ CreateProjectFilesStart
    \/ ProcessFileType
    \/ ProcessFileTypeRaises
    \/ CreateProjectFilesSummary

SpecFileManager == InitFileManager /\ [][NextFileManager]_vars

\* ------------------------------------------------------------------ DirectoryValidator

\* what exists(), is_dir(), os.access and os.statvfs can find for target_dir:
\* access is "exists", "missing" or "raises" (exists() raises OSError); space is
\* "enough", "low" or "unknown" (os.statvfs raises)
TargetStates ==
    {[access |-> a, is_dir |-> FALSE, r_ok |-> FALSE, w_ok |-> FALSE,
      x_ok |-> FALSE, space |-> "unknown"] : a \in {"exists", "missing", "raises"}}
    \cup [access : {"exists"}, is_dir : {TRUE}, r_ok : BOOLEAN, w_ok : BOOLEAN,
          x_ok : BOOLEAN, space : {"enough", "low", "unknown"}]

\* DirectoryValidator._check_disk_space: <<result, errors appended>>
check_disk_space(t) ==
    IF t.space = "low" THEN <<FALSE, <<"Insufficient disk space">> >>
    ELSE <<TRUE, <<>> >>

\* DirectoryValidator._validate_existing_directory: <<result, errors appended>>
validate_existing_directory(t) ==
    IF ~t.is_dir THEN <<FALSE, <<"Path exists but is not a directory">> >>
    ELSE LET errors == (IF t.r_ok THEN <<>> ELSE <<"No read permission for directory">>)
                       \o (IF t.w_ok THEN <<>> ELSE <<"No write permission for directory">>)
                       \o (IF t.x_ok THEN <<>> ELSE <<"No execute permission for directory">>)
             disk == check_disk_space(t)
         IN  <<errors = <<>> /\ disk[1], errors \o disk[2]>>

\* DirectoryValidator.validate_target_directory: <<return value, validation_errors>>
\* starting from the cleared list; "None" is the return of a call that falls off
\* the end of the function
validate_target_directory(t) ==
    CASE t.access = "raises" -> <<"False", <<"System error accessing directory">> >>
      [] t.access = "exists" ->
            LET r == validate_existing_directory(t)
            IN  <<IF r[1] THEN "True" ELSE "False", r[2]>>
      [] OTHER -> <<"None", <<>> >>

\* DirectoryValidator.get_validation_summary
get_validation_summary(errors) ==
    IF errors = <<>> THEN <<"Directory validation passed">>
    ELSE <<"Directory validation failed:">> \o errors

\* a call of validate_target_directory
ValidateTargetDirectory ==
    /\ calls < MaxCalls
    /\ calls' = calls + 1
    /\ returned' = validate_target_directory(target_state)[1]
    /\ validation_errors' = validate_target_directory(target_state)[2]
    /\ UNCHANGED <<create_args, fs, pc, run, requested, context, struct_todo,
                   file_todo, pyproject_spec, created_files, skipped_files, failures,
                   write_log, fs_prev, target_dir, dir_name, target_state, fm_vars>>

\* between two calls the target, its permissions or the free space change
TargetChanges ==
    /\ calls < MaxCalls
    /\ target_state' \in TargetStates \ {target_state}
    /\ UNCHANGED <<create_args, fs, pc, run, requested, context, struct_todo,
                   file_todo, pyproject_spec, created_files, skipped_files, failures,
                   write_log, fs_prev, target_dir, dir_name, validation_errors,
                   returned, calls, fm_vars>>

\* a new DirectoryValidator(target_dir) for a target in any state
InitValidator ==
    /\ create_args = <<>>
    /\ target_dir = "dir"
    /\ fs = [p \in Paths |-> NoFile]
    /\ dir_name = ProjectNameChars
    /\ pc = "start"
    /\ run = 1
    /\ requested = EmptyRequested
    /\ context = EmptyContext
    /\ struct_todo = {}
    /\ file_todo = <<>>
    /\ pyproject_spec = NoSpec
    /\ created_files = <<>>
    /\ skipped_files = <<>>
    /\ failures = 0
    /\ write_log = <<>>
    /\ fs_prev = fs
    /\ validation_errors = <<>>
    /\ returned = "not called"
    /\ target_state \in TargetStates
    /\ calls = 0
    /\ FileManagerUnused

NextValidator == ValidateTargetDirectory \/ TargetChanges

SpecValidator == InitValidator /\ [][NextValidator]_vars

\* ------------------------------------------------------------------ properties

\* the alias a token starts with
Alias(tok) == IF tok = <<>> \/ tok[1] = ":" THEN "" ELSE tok[1]

EmptyDirectory == [p \in Paths |-> NoFile]

\* the step taken is the executor processing the request at the head of file_todo
ProcessesHead == pc = "exec" /\ struct_todo = {} /\ file_todo # <<>>
                 /\ file_todo' = Tail(file_todo)

\* C1: create-only executor.  Whenever execute_plan processes a file request
\* (other than the deferred pyproject request) whose resolved path exists at that
\* moment, the file keeps its content and its name is appended to skipped_files;
\* and the same for pyproject.toml when the deferred request is processed.
C1_ExecutorCreateOnly ==
    [][ /\ (ProcessesHead /\ Head(file_todo).file_type # PYPROJECT
            /\ Exists(fs, Filename(Head(file_todo).file_type, Head(file_todo))))
           => LET filename == Filename(Head(file_todo).file_type, Head(file_todo))
              IN  fs'[filename] = fs[filename]
                  /\ skipped_files' = Append(skipped_files, filename)
        /\ (pc = "exec" /\ pc' = "report" /\ Exists(fs, "pyproject.toml"))
           => (fs'["pyproject.toml"] = fs["pyproject.toml"]
               /\ skipped_files' = Append(skipped_files, "pyproject.toml"))
      ]_vars

\* C2: with LICENSE in the directory when the snapshot is taken, the run of the
\* token l:apache:Jane leaves LICENSE's content as it was and lists LICENSE as
\* skipped in the summary.
C2_ExistingLicenseSkipped ==
    (pc = "done" /\ run = 1
     /\ create_args = << <<"l", ":", "apache", ":", "Jane">> >>
     /\ Exists(fs_prev, "LICENSE"))
    => (fs["LICENSE"] = fs_prev["LICENSE"] /\ "LICENSE" \in Range(skipped_files))

\* the names under which the summary lists what the tokens asked for
RequestedArtifacts ==
    {Filename(requested.files[i].file_type, requested.files[i]) :
        i \in 1..Len(requested.files)}
    \cup {"src/main.py structure" : t \in requested.structures \cap {MAIN}}
    \cup {"full project structure" : t \in requested.structures \cap {FULL}}

\* C3: idempotence.  At the end of a second run of the same tokens on the same
\* directory, with no write failure, the directory is as the first run left it
\* and everything the tokens requested is listed as skipped.
C3_SecondRunSkipsAll ==
    (pc = "done" /\ run = 2 /\ failures = 0)
    => (fs = fs_prev /\ RequestedArtifacts \subseteq Range(skipped_files))

\* C4: a kind is in the plan's files_to_create only if the file it would be
\* written to does not exist according to the plan's snapshot.
C4_PlanAvoidsExisting ==
    pc = "exec"
    => \A i \in 1..Len(context.files_to_create) :
          LET e == context.files_to_create[i]
              target == IF e.file_type = PYPROJECT THEN "pyproject.toml"
                        ELSE Filename(e.file_type, e)
          IN  target \notin context.directory_snapshot.files

\* C4 witness: a plan that kept one request and dropped another, whose file is
\* in the snapshot under the name its filename option gives
C4_Witness ==
    /\ pc = "exec"
    /\ create_args = << <<"r", ":", "LICENSE">>, <<"g">> >>
    /\ "LICENSE" \in context.directory_snapshot.files
    /\ Keys(context.files_to_create) = {GITIGNORE}

\* C5: manifest priority.  When the token list holds a requirements token and a
\* pyproject token (or all / *), the plan holds no requirements entry.
C5_ManifestPriority ==
    (pc = "exec"
     /\ \E i \in 1..Len(create_args) : Alias(create_args[i]) \in {"r", "req"}
     /\ \E j \in 1..Len(create_args) :
            Alias(create_args[j]) \in {"p", "toml", "all", "*"})
    => ~Has(context.files_to_create, REQUIREMENTS)

\* C5 witness: requirements and pyproject both requested, no pyproject.toml on
\* disk, the plan keeps the pyproject request
C5_Witness ==
    /\ pc = "exec"
    /\ create_args = << <<"r">>, <<"p">> >>
    /\ "pyproject.toml" \notin context.directory_snapshot.files
    /\ Keys(context.files_to_create) = {PYPROJECT}

\* C6: with all (or *) in the token list and exactly one token for a file kind,
\* carrying options, the request stored for that kind is that token's.
C6_ExplicitOptionsKept ==
    pc = "exec"
    => \A i \in 1..Len(create_args) :
          LET p == parse(create_args[i]) IN
          (/\ p.file_spec # NoSpec
           /\ p.file_spec.options # NoOptions
           /\ \A j \in 1..Len(create_args) :
                 j # i => parse(create_args[j]).file_spec.file_type # p.file_spec.file_type
           /\ \E j \in 1..Len(create_args) : Alias(create_args[j]) \in {"all", "*"})
          => /\ Has(requested.files, p.file_spec.file_type)
             /\ Lookup(requested.files, p.file_spec.file_type) = p.file_spec

\* C6 witness: l:apache:Jane followed by all, the license request still Jane's
C6_Witness ==
    /\ pc = "exec"
    /\ create_args = << <<"l", ":", "apache", ":", "Jane">>, <<"all">> >>
    /\ Lookup(requested.files, LICENSE).options =
          [type |-> "apache", author |-> "Jane", filename |-> ""]
    /\ Len(requested.files) = Len(FileType)

\* pyproject.toml was written in this run
PyprojectWritten == pc \in {"report", "done"} /\ "pyproject.toml" \in Range(write_log)

\* C7: pyproject.toml is written only once every structure and every other file
\* request has been processed, and its readme, license, pytest and build
\* sections are enabled exactly when README.md, LICENSE, the tests and the src
\* layout are in the snapshot or in the plan.
C7_PyprojectLastAndFinal ==
    /\ [](PyprojectWritten =>
            LET text == fs["pyproject.toml"]
                snap == context.directory_snapshot
                plan == Keys(context.files_to_create)
                structures == context.structures_to_create
            IN  /\ (text[4] = "readme = \"README.md\"")
                      <=> ("README.md" \in snap.files \/ README \in plan)
                /\ (text[5] = "license = {file = \"LICENSE\"}")
                      <=> ("LICENSE" \in snap.files \/ LICENSE \in plan)
                /\ (text[6] = "[tool.pytest.ini_options]")
                      <=> (snap.has_tests \/ FULL \in structures)
                /\ (text[7] = "[tool.hatch.build.targets.wheel]")
                      <=> (snap.has_src_layout \/ structures \cap {MAIN, FULL} # {}))
    /\ [][("pyproject.toml" \in Range(write_log') \ Range(write_log))
            => (struct_todo = {} /\ file_todo = <<>>
                /\ Len(created_files) + Len(skipped_files)
                     = Cardinality(context.structures_to_create)
                       + Len(context.files_to_create) - 1)]_vars

\* C7 witness: the pyproject request is first in the file map and written last,
\* after the README; the license section comes from the snapshot, the readme
\* section from the plan, and the pytest section stays commented out
C7_Witness ==
    /\ pc = "done"
    /\ create_args = << <<"p">>, <<"md">> >>
    /\ "LICENSE" \in context.directory_snapshot.files
    /\ write_log = <<"README.md", "pyproject.toml">>
    /\ fs["pyproject.toml"][4] = "readme = \"README.md\""
    /\ fs["pyproject.toml"][5] = "license = {file = \"LICENSE\"}"
    /\ fs["pyproject.toml"][6] = "# [tool.pytest.ini_options]"

\* C8 as stated: the single token all (or *) on a directory without well-known
\* files gives a plan with every file kind and the FULL structure.
C8_AllGivesEveryKind ==
    (pc = "exec" /\ create_args \in {<< <<"all">> >>, << <<"*">> >>}
     /\ context.directory_snapshot.files = {})
    => /\ Keys(context.files_to_create) = Range(FileType)
       /\ FULL \in context.structures_to_create

\* C8 amended: the plan holds every file kind except requirements, which the
\* pyproject request supersedes, and the FULL structure.
C8_AllGivesEveryKindButRequirements ==
    (pc = "exec" /\ create_args \in {<< <<"all">> >>, << <<"*">> >>}
     /\ context.directory_snapshot.files = {})
    => /\ Keys(context.files_to_create) = Range(FileType) \ {REQUIREMENTS}
       /\ FULL \in context.structures_to_create

\* C8 witness: the plan of * on a directory without well-known files
C8_Witness ==
    /\ pc = "exec"
    /\ create_args = << <<"*">> >>
    /\ context.directory_snapshot.files = {}
    /\ Len(context.files_to_create) = 5
    /\ context.structures_to_create = {FULL}

\* C9: no path is written twice in one run.
C9_EachPathWrittenOnce ==
    \A i, j \in 1..Len(write_log) : i # j => write_log[i] # write_log[j]

\* C10: the run of g, md, l:mit:Alice on an empty directory, without write
\* failure, creates .gitignore, README.md and LICENSE (the MIT text with author
\* Alice) and nothing else, and the summary lists those three as created and
\* nothing as skipped.
C10_EndToEnd ==
    (pc = "done" /\ run = 1 /\ failures = 0 /\ fs_prev = EmptyDirectory
     /\ create_args = << <<"g">>, <<"md">>, <<"l", ":", "mit", ":", "Alice">> >>)
    => /\ {p \in Paths : Exists(fs, p)} = {".gitignore", "README.md", "LICENSE"}
       /\ fs["LICENSE"] = <<"mit.tmpl", "Alice", project_name>>
       /\ fs[".gitignore"] = <<"gitignore.tmpl">>
       /\ fs["README.md"] = <<"README.md.tmpl", project_name>>
       /\ Range(created_files) = {".gitignore", "README.md", "LICENSE"}
       /\ Len(created_files) = 3
       /\ skipped_files = <<>>

\* C10 witness: that run, finished
C10_Witness ==
    /\ pc = "done" /\ run = 1 /\ failures = 0 /\ fs_prev = EmptyDirectory
    /\ create_args = << <<"g">>, <<"md">>, <<"l", ":", "mit", ":", "Alice">> >>
    /\ created_files = <<".gitignore", "README.md", "LICENSE">>

\* C11: the run of md, ch on a directory holding only README.md, without write
\* failure, lists README.md as skipped, creates CHANGELOG.md, and the changelog's
\* feature list does not mention the README.
C11_ReadmeSkippedChangelogCreated ==
    (pc = "done" /\ run = 1 /\ failures = 0
     /\ create_args = << <<"md">>, <<"ch">> >>
     /\ fs_prev = [EmptyDirectory EXCEPT !["README.md"] = Orig])
    => /\ "README.md" \in Range(skipped_files)
       /\ "CHANGELOG.md" \in Range(created_files)
       /\ Exists(fs, "CHANGELOG.md")
       /\ "Added README.md documentation" \notin Range(fs["CHANGELOG.md"])

\* the positions of the tokens that name file_type by one of its aliases
TokensOf(file_type) ==
    {i \in 1..Len(create_args) : Alias(create_args[i]) \in Aliases(file_type)}

\* C12: last wins.  The requested-files map holds at most one request per kind,
\* and for a kind named by file-kind aliases the stored request is the one parsed
\* from the last such token.
C12_LastTokenWins ==
    pc = "exec"
    => /\ \A i, j \in 1..Len(requested.files) :
             requested.files[i].file_type = requested.files[j].file_type => i = j
       /\ \A k \in 1..Len(FileType) :
             TokensOf(FileType[k]) # {}
             => LET last == CHOOSE i \in TokensOf(FileType[k]) :
                                \A j \in TokensOf(FileType[k]) : j <= i
                IN  /\ Has(requested.files, FileType[k])
                    /\ Lookup(requested.files, FileType[k])
                         = parse(create_args[last]).file_spec

\* C12 witness: l:apache:Jane then a bare l, the stored license request bare
C12_Witness ==
    /\ pc = "exec"
    /\ create_args = << <<"l", ":", "apache", ":", "Jane">>, <<"l">> >>
    /\ requested.files = <<MkFileSpec(LICENSE, NoOptions)>>

\* the token list without its i-th token
Without(list, i) == SubSeq(list, 1, i - 1) \o SubSeq(list, i + 1, Len(list))

\* the token's head is neither a structure alias nor a file-kind alias
Unrecognized(tok) ==
    /\ StructureAliases(Alias(tok)) = None
    /\ \A k \in 1..Len(FileType) : Alias(tok) \notin Aliases(FileType[k])

\* C13: an unrecognized token is reported as unknown and the plan is the plan of
\* the token list without it.
C13_UnknownTokenIgnored ==
    pc = "exec"
    => \A i \in 1..Len(create_args) :
          Unrecognized(create_args[i])
          => /\ create_args[i] \in Range(requested.unknown)
             /\ context.files_to_create
                  = build(fs, dir_name, Without(create_args, i)).files_to_create
             /\ context.structures_to_create
                  = build(fs, dir_name, Without(create_args, i)).structures_to_create

\* C13 witness: an unknown token before a known one, whose request is planned
C13_Witness ==
    /\ pc = "exec"
    /\ create_args = << <<"zz">>, <<"g">> >>
    /\ requested.unknown = << <<"zz">> >>
    /\ Keys(context.files_to_create) = {GITIGNORE}

\* C14: every failure while an artifact is materialized is caught: the call goes
\* on to the remaining items (it does not end with the exception) and the
\* artifact that failed is not added to the created list.
C14_FailureCaughtRunContinues ==
    [][failures' > failures
       => (pc' # "crashed" /\ created_files' = created_files)]_vars

\* C15: at the end of a run every artifact a recognized token requested is in
\* exactly one of the summary's lists, created or skipped.
C15_SummaryPartitionsRequests ==
    pc = "done"
    => \A a \in RequestedArtifacts :
          (a \in Range(created_files)) # (a \in Range(skipped_files))

\* C16: from a target path that does not exist or is not a directory, the only
\* step is the fatal exit: no plan is built and nothing is created.
C16_InvalidTargetIsFatal ==
    [][target_dir # "dir" => pc' = "exit1"]_vars

\* the k-th colon of a token
ColonAt(tok, k) ==
    CHOOSE i \in 1..Len(tok) :
        tok[i] = ":" /\ Cardinality({j \in 1..i : tok[j] = ":"}) = k

\* what stands between the k-th colon of a token and the next one, "" when the
\* token has no k-th colon or nothing stands there
Segment(tok, k) ==
    IF Cardinality({j \in 1..Len(tok) : tok[j] = ":"}) < k THEN ""
    ELSE LET c == ColonAt(tok, k) IN
         IF c < Len(tok) /\ tok[c + 1] # ":" THEN tok[c + 1] ELSE ""

\* C17: FileSpec.parse looks up what precedes the first colon; a structure alias
\* gives that structure and no file request whatever follows; a file-kind
\* alias gives a request whose k-th declared option is the k-th colon-separated
\* segment after the alias, left out when that segment is empty or absent, and
\* which has no other option.
C17_ParsePositional ==
    (pc = "exec" /\ Len(create_args) = 1)
    => LET tok == create_args[1]
           p == parse(tok)
       IN  IF StructureAliases(Alias(tok)) # None
           THEN /\ p = [file_spec |-> NoSpec, structure |-> StructureAliases(Alias(tok))]
                /\ requested.structures = {IF p.structure = ALL THEN FULL ELSE p.structure}
                /\ (p.structure # ALL => requested.files = <<>>)
           ELSE \A i \in 1..Len(FileType) :
                   Alias(tok) \in Aliases(FileType[i])
                   => /\ p.structure = None
                      /\ requested.files = <<p.file_spec>>
                      /\ p.file_spec.file_type = FileType[i]
                      /\ \A k \in 1..Len(OptionKeys(FileType[i])) :
                            p.file_spec.options[OptionKeys(FileType[i])[k]]
                               = Segment(tok, k)
                      /\ \A key \in {"type", "author", "filename"} :
                            key \notin Range(OptionKeys(FileType[i]))
                            => p.file_spec.options[key] = ""

\* C17 witness: build has parsed l::Jane, whose empty first segment leaves the
\* type out and whose second segment is the author
C17_Witness ==
    /\ pc = "exec"
    /\ create_args = << <<"l", ":", ":", "Jane">> >>
    /\ requested.files
         = <<MkFileSpec(LICENSE, [type |-> "", author |-> "Jane", filename |-> ""])>>

LowerAlphanumerics == {"a", "b", "1"}

\* C18: the package identifier holds only lower-case alphanumerics and single
\* separators: every run of other characters of the name became one "_".
C18_PackageIdentifierCollapsed ==
    pc = "exec"
    => LET package == context.project_package IN
       /\ \A i \in 1..Len(package) : package[i] \in LowerAlphanumerics \cup {"_"}
       /\ \A i \in 1..(Len(package) - 1) : ~(package[i] = "_" /\ package[i + 1] = "_")

\* the ordering of a run: nothing is written before the plan is built, and the
\* plan's snapshot is the scan of the directory as it was before any write
SnapshotThenPlanThenWrites ==
    /\ pc = "start" => (fs = fs_prev /\ write_log = <<>>)
    /\ pc \in {"exec", "report", "done", "crashed"}
       => context.directory_snapshot = scan(fs_prev)

\* the step that builds the plan gives what build gives for the directory as it
\* was before any write, and the directory only changes inside execute_plan
PlanThenWrites ==
    /\ (pc = "start" /\ pc' = "exec")
       => context' = build(fs_prev, dir_name, create_args)
    /\ fs' # fs => pc = "exec"

\* the step taken lists the structure of that name as skipped
SkipsStructure(name) ==
    /\ struct_todo' # struct_todo
    /\ skipped_files' = Append(skipped_files, name)

\* C19 as stated: the snapshot precedes the plan, the plan precedes the first
\* write, and whether an artifact is skipped is decided from the snapshot
\* alone: a structure is skipped only if the snapshot recorded its layout.
C19_NoDecisionAfterSnapshot ==
    /\ []SnapshotThenPlanThenWrites
    /\ [][/\ PlanThenWrites
          /\ SkipsStructure("src/main.py structure")
             => context.directory_snapshot.has_src_layout
          /\ SkipsStructure("full project structure")
             => (context.directory_snapshot.has_src_layout
                 /\ context.directory_snapshot.has_tests)]_vars

\* C19, amended: the snapshot precedes the plan and the plan precedes the first
\* write; the plan is decided from the snapshot alone, and the executor skips
\* a structure exactly on what is in the directory when it processes it.
C19_PlanFromSnapshotSkipFromDirectory ==
    /\ []SnapshotThenPlanThenWrites
    /\ [][/\ PlanThenWrites
          /\ SkipsStructure("src/main.py structure") => Exists(fs, MainFile)
          /\ SkipsStructure("full project structure")
             => (Exists(fs, MainFile) /\ Exists(fs, TestMain))]_vars

\* C19 witness: m and f in an empty directory; the full structure was created
\* first and the main structure then skipped, although the snapshot has no src
\* layout
C19_Witness ==
    /\ pc = "done"
    /\ fs_prev = EmptyDirectory
    /\ created_files = <<"full project structure">>
    /\ skipped_files = <<"src/main.py structure">>
    /\ ~context.directory_snapshot.has_src_layout

\* C20: no step of execute_plan changes the plan: files_to_create,
\* structures_to_create, the project name, the package identifier and the
\* snapshot are, when it returns or raises, what they were when it was called.
C20_PlanUnchangedByExecution ==
    [][pc = "exec" => context' = context]_vars

\* C20 witness: execute_plan has returned after creating a structure and a
\* file, deferring and then failing to write pyproject.toml; the plan still
\* holds both file requests and the structure
C20_Witness ==
    /\ pc = "done"
    /\ create_args = << <<"p">>, <<"m">> >>
    /\ fs_prev = [EmptyDirectory EXCEPT !["README.md"] = Orig]
    /\ failures = 1
    /\ created_files = <<"src/main.py structure">>
    /\ skipped_files = <<"pyproject.toml">>
    /\ Keys(context.files_to_create) = {PYPROJECT}
    /\ context.structures_to_create = {MAIN}
    /\ context.directory_snapshot.files = {"README.md"}
    /\ context.project_package = <<"m", "y", "_", "p", "r", "o", "j">>

\* the files a structure consists of
StructureFiles(template) ==
    IF template = MAIN THEN {MainInit, MainFile}
    ELSE {MainInit, MainFile, TestsInit, TestMain}

\* the step taken is the executor processing structure template to its end
ProcessesStructure(template) ==
    /\ pc = "exec" /\ pc' = "exec"
    /\ template \in struct_todo
    /\ struct_todo' = struct_todo \ {template}

\* the name under which the summary lists a structure
StructureName(template) ==
    IF template = MAIN THEN "src/main.py structure" ELSE "full project structure"

\* C21: when a structure is processed, no file of it that exists is changed,
\* every file of it that is missing is created (when no write fails) whether or
\* not the others exist, and the structure is listed as created exactly when
\* one of its files is new.
C21_StructureFilesIndependent ==
    [][\A template \in {MAIN, FULL} :
          ProcessesStructure(template)
          => /\ \A p \in StructureFiles(template) : Exists(fs, p) => fs'[p] = fs[p]
             /\ failures' = failures
                => \A p \in StructureFiles(template) : Exists(fs', p)
             /\ (created_files' = Append(created_files, StructureName(template)))
                <=> (\E p \in StructureFiles(template) :
                        ~Exists(fs, p) /\ Exists(fs', p))]_vars

\* the target exists, is a directory, is readable, writable and traversable and
\* is not short of disk space
Valid(t) ==
    /\ t.access = "exists" /\ t.is_dir
    /\ t.r_ok /\ t.w_ok /\ t.x_ok
    /\ t.space # "low"

\* C22: validate_target_directory returns True for a valid target and False in
\* every other case, a target that does not exist included.
C22_ValidateReturnsBool ==
    [][calls' = calls + 1
       => returned' = IF Valid(target_state) THEN "True" ELSE "False"]_vars

\* C30: after every call of validate_target_directory, validation_errors is
\* empty exactly when the call returned True, and the summary reports that
\* validation passed only for a target that is valid.
C30_ErrorsEmptyIffValid ==
    [][calls' = calls + 1
       => /\ (validation_errors' = <<>>) <=> (returned' = "True")
          /\ get_validation_summary(validation_errors') = <<"Directory validation passed">>
             => Valid(target_state)]_vars

\* C23: _apply_prioritization, applied by build to the requested map and the
\* snapshot, drops the requirements request whenever pyproject.toml is in the
\* snapshot (also without a pyproject request), drops nothing else, and returns
\* the map as it is when there is neither a pyproject request nor a
\* pyproject.toml.
C23_PrioritizationDropsOnlyRequirements ==
    pc = "exec"
    => LET files == requested.files
           snap == context.directory_snapshot
           final_files == apply_prioritization(files, snap)
           NotRequirements(e) == e.file_type # REQUIREMENTS
       IN  /\ context.files_to_create = safe_files(final_files, snap)
           /\ "pyproject.toml" \in snap.files
              => (REQUIREMENTS \notin Keys(final_files)
                  /\ REQUIREMENTS \notin Keys(context.files_to_create))
           /\ SelectSeq(final_files, NotRequirements) = SelectSeq(files, NotRequirements)
           /\ (PYPROJECT \notin Keys(files) /\ "pyproject.toml" \notin snap.files)
              => final_files = files

\* C23 witness: requirements and gitignore requested, no pyproject request,
\* pyproject.toml on disk: the plan holds the gitignore request only
C23_Witness ==
    /\ pc = "exec"
    /\ create_args = << <<"r">>, <<"g">> >>
    /\ Keys(requested.files) = {REQUIREMENTS, GITIGNORE}
    /\ context.directory_snapshot.files = {"pyproject.toml"}
    /\ Keys(context.files_to_create) = {GITIGNORE}

\* the step taken is create_project_files processing file type file_type
ProcessesFileType(file_type) ==
    /\ pc = "fm_exec" /\ pc' = "fm_exec"
    /\ file_types # <<>> /\ Head(file_types) = file_type
    /\ file_types' = Tail(file_types)

\* C24: during create_project_files no file that was in the directory before
\* the call changes; a create_<file_type> whose file exists writes nothing and
\* its file type is listed as skipped.
C24_FileManagerCreateOnly ==
    [][(pc = "fm_ready" \/ pc = "fm_exec")
       => /\ \A p \in Paths : Exists(fs_prev, p) => fs'[p] = fs_prev[p]
          /\ \A file_type \in {"requirements", "pyproject", "gitignore", "readme",
                                "changelog", "license"} :
                (ProcessesFileType(file_type) /\ Exists(fs, TargetFile(file_type)))
                => /\ fs' = fs
                   /\ write_log' = write_log
                   /\ skipped_files' = Append(skipped_files, TargetFile(file_type))
                   /\ created_files' = created_files]_vars

\* C24 witness: all asked for in a directory that holds README.md: README.md is
\* as it was and listed as skipped, the other files and the structure are
\* created
C24_Witness ==
    /\ pc = "fm_done"
    /\ create_args = <<"all">>
    /\ fs_prev["README.md"] = Orig
    /\ fs["README.md"] = Orig
    /\ skipped_files = <<"README.md">>
    /\ created_files = <<"pyproject.toml", ".gitignore", "CHANGELOG.md", "LICENSE",
                         "full project structure">>
    /\ fs["LICENSE"] = <<"LICENSE_MIT.tmpl">>

\* artifact a, a file name or a structure's name, is present in directory f
Present(f, a) ==
    CASE a = "src/main.py structure" -> Exists(f, MainFile)
      [] a = "full project structure" -> Exists(f, MainFile) /\ Exists(f, TestMain)
      [] OTHER -> a \in Paths /\ Exists(f, a)

\* C25: whatever execute_plan adds to its skipped list was present in the
\* directory when it was processed, and the step that adds it is not one in
\* which a write failed.
C25_SkippedMeansExisting ==
    [][(pc = "exec" /\ skipped_files' # skipped_files)
       => /\ failures' = failures
          /\ Present(fs, skipped_files'[Len(skipped_files')])]_vars

\* C26: when the summary is emitted, every artifact listed as created is in the
\* directory; for a structure, its main.py (and test_main.py) were written.
C26_CreatedMeansOnDisk ==
    (pc = "report" \/ pc = "done")
    => \A i \in 1..Len(created_files) : Present(fs, created_files[i])

\* the structure loop of execute_plan run over the templates in the given order,
\* every write succeeding: the directory and the two lists it leaves
RECURSIVE StructuresInOrder(_, _)
StructuresInOrder(f, order) ==
    IF order = <<>> THEN [fs |-> f, created |-> {}, skipped |-> {}]
    ELSE LET r == IF Head(order) = MAIN THEN create_main_structure(f, TRUE)
                  ELSE create_full_structure(f, TRUE, TRUE)
             rest == StructuresInOrder(r.fs, Tail(order))
             name == StructureName(Head(order))
         IN  [fs |-> rest.fs,
              created |-> rest.created \cup (IF r.created THEN {name} ELSE {}),
              skipped |-> rest.skipped \cup (IF r.created THEN {} ELSE {name})]

\* C27: with MAIN and FULL both in the plan, once the structure loop is over
\* the directory and the created/skipped classification of the two structures
\* are what either iteration order gives: the two orders agree.
C27_StructureOrderIrrelevant ==
    (/\ pc = "exec" /\ struct_todo = {} /\ failures = 0
     /\ context.structures_to_create = {MAIN, FULL}
     /\ file_todo = context.files_to_create /\ pyproject_spec = NoSpec)
    => LET main_first == StructuresInOrder(fs_prev, <<MAIN, FULL>>)
           full_first == StructuresInOrder(fs_prev, <<FULL, MAIN>>)
           outcome == [fs |-> fs, created |-> Range(created_files),
                       skipped |-> Range(skipped_files)]
       IN  outcome = main_first /\ outcome = full_first

\* C28: in a run without write failure, the feature list of the CHANGELOG.md
\* written in that run mentions an artifact only if the run's summary lists
\* that artifact as created.
C28_ChangelogMentionsOnlyCreated ==
    (pc = "done" /\ failures = 0 /\ "CHANGELOG.md" \in Range(write_log))
    => LET features == Range(fs["CHANGELOG.md"])
           created == Range(created_files)
       IN  /\ "Added README.md documentation" \in features => "README.md" \in created
           /\ "Added LICENSE file" \in features
              => Filename(LICENSE, Lookup(context.files_to_create, LICENSE)) \in created
           /\ "Added src/ package structure" \in features
              => ("src/main.py structure" \in created
                  \/ "full project structure" \in created)
           /\ "Added main.py entry point" \in features
              => ("src/main.py structure" \in created
                  \/ "full project structure" \in created)
           /\ "Added tests/ directory with basic test structure" \in features
              => "full project structure" \in created
           /\ "Added pyproject.toml configuration" \in features
              => "pyproject.toml" \in created
           /\ "Added .gitignore file" \in features => ".gitignore" \in created

\* C29: in a run without write failure that writes pyproject.toml, an
\* uncommented license line means that a file named LICENSE is in the
\* directory at the end of the run, and an uncommented readme line that
\* README.md is.
C29_PyprojectReferencesExist ==
    (pc = "done" /\ failures = 0 /\ "pyproject.toml" \in Range(write_log))
    => LET text == fs["pyproject.toml"] IN
       /\ text[5] = "license = {file = \"LICENSE\"}" => Exists(fs, "LICENSE")
       /\ text[4] = "readme = \"README.md\"" => Exists(fs, "README.md")

====
